---- MODULE Spec2Model ----
(***************************************************************************)
(* SiteMonitor: the check orchestrator (scheduler tick, POST /api/check,   *)
(* POST /api/config, realtime events), its cron-subset parser, and the     *)
(* change-detection / persistence path of checkWebsite, the session        *)
(* manager (initializeBrowser, login) and the reset endpoint of the API    *)
(* service.                                                                *)
(*                                                                         *)
(* Time is in milliseconds, as Date.now() returns it.  Several handler     *)
(* segments may run at the same value of `now` (the same millisecond).     *)
(***************************************************************************)
EXTENDS Integers, Sequences, FiniteSets, TLC

VARIABLES
    now,                \* Date.now()
    scheduleIntervalMs, \* orchestrator: cached interval
    nextCheckTs,        \* orchestrator: deadline of the next check
    isCheckingRunning,  \* orchestrator: guard
    cyc,                \* check cycles in flight: slot -> record
    cfgReq,             \* POST /api/config handlers in flight: slot -> record
    emitted,            \* socket events emitted by the last step, in order
    arrived,            \* the request whose handler was entered by the last step
    response,           \* the HTTP response sent by the last step
    lastCycle,          \* summary of the cycle that ended in the last step
    store,              \* Listing table: rows in insertion (rowid) order
    prevCheck,          \* the checkWebsite call that ended last: what it extracted, if it returned
    lastCfg,            \* the POST /api/config request answered by the last step
    cronIn,             \* parser harness: the schedule value under test
    cronOut,            \* parser harness: parseCronToMs(cronIn), once computed
    cronPc,             \* parser harness: "ready" | "done"
    fp,                 \* fingerprint harness: a list, one of its orders, the hashes
    isLoggedIn,         \* website-monitor: login state
    lastLoginTime,      \* website-monitor: time of the last login, or null
    loginInProgress,    \* website-monitor: a login started by initializeBrowser is in flight
    sess,               \* checkWebsite calls in their session phase: caller -> record
    browser,            \* website-monitor: the browser instance held, or null
    lastBrowserStart,   \* website-monitor: `now` of the call that launched it, or null
    launched,           \* browser instances launched so far
    loginBrowser,       \* the instance in which login() last passed its verification
    loginDone,          \* the instant at which login() last passed its verification
    itemsBody           \* the body of the last response of GET /api/items

vars == <<now, scheduleIntervalMs, nextCheckTs, isCheckingRunning, cyc, cfgReq,
          emitted, arrived, response, lastCycle, store, prevCheck, lastCfg,
          cronIn, cronOut, cronPc, fp, isLoggedIn, lastLoginTime, loginInProgress, sess,
          browser, lastBrowserStart, launched, loginBrowser, loginDone, itemsBody>>

orchVars == <<now, scheduleIntervalMs, nextCheckTs, isCheckingRunning, cyc, cfgReq,
              emitted, arrived, response, lastCycle, store, prevCheck, lastCfg>>

cronVars == <<cronIn, cronOut, cronPc>>

fpVars == <<fp>>

readVars == <<itemsBody>>

sessVars == <<isLoggedIn, lastLoginTime, loginInProgress, sess,
              browser, lastBrowserStart, launched, loginBrowser, loginDone>>

-----------------------------------------------------------------------------
(* Bounds of the model.                                                    *)

\* largest N and H used to build '*/N' and '*/H' fields
MaxN == 12

\* handler slots for check cycles (the guard is what keeps all but one free)
MaxCycles == 2

\* POST /api/config handlers that may be in flight together
MaxCfg == 1

\* the clock stops after this many steps of StepMs
MaxClock == 2

\* milliseconds between the evaluation of the module (time 0, where line 45
\* sets the first deadline) and the moment the server starts to serve
BootMs == 1

\* longest list of items one extraction returns
MaxItems == 2

\* largest N of the schedules '*/N * * * *' posted to the orchestrator
MaxEvery == 1

\* longest list whose fingerprint is compared across its orders
MaxFp == 3

\* checkWebsite calls whose session phase is followed
MaxCallers == 2

\* the session clock stops after this many login timeouts
MaxLoginAge == 1

\* browser instances that may be launched
MaxBrowsers == 3

-----------------------------------------------------------------------------
(* JavaScript strings are sequences of one-character strings.              *)

Digits == <<"0", "1", "2", "3", "4", "5", "6", "7", "8", "9">>

IsDigit(c) == \E i \in 1..10 : Digits[i] = c

DigitVal(c) == (CHOOSE i \in 1..10 : Digits[i] = c) - 1

IsSpace(c) == c \in {" ", "\t"}

\* Number.prototype.toString for a natural number
RECURSIVE DecStr(_)
DecStr(n) == IF n < 10 THEN <<Digits[n + 1]>>
             ELSE DecStr(n \div 10) \o <<Digits[(n % 10) + 1]>>

RECURSIVE TrimStart(_)
TrimStart(s) == IF s # <<>> /\ IsSpace(Head(s)) THEN TrimStart(Tail(s)) ELSE s

RECURSIVE TrimEnd(_)
TrimEnd(s) == IF s # <<>> /\ IsSpace(s[Len(s)]) THEN TrimEnd(SubSeq(s, 1, Len(s) - 1)) ELSE s

\* String.prototype.trim
Trim(s) == TrimEnd(TrimStart(s))

\* String.prototype.split(/\s+/): `acc` holds the finished fields, `cur` the
\* field being read; a run of whitespace closes the field once.
RECURSIVE SplitFrom(_, _, _)
SplitFrom(s, acc, cur) ==
    IF s = <<>> THEN Append(acc, cur)
    ELSE IF IsSpace(Head(s))
         THEN SplitFrom(TrimStart(s), Append(acc, cur), <<>>)
         ELSE SplitFrom(Tail(s), acc, Append(cur, Head(s)))

SplitWs(s) == SplitFrom(s, <<>>, <<>>)

\* String.prototype.startsWith('*/')
StartsWithStarSlash(s) == Len(s) >= 2 /\ s[1] = "*" /\ s[2] = "/"

\* String.prototype.slice(2)
Slice2(s) == SubSeq(s, 3, Len(s))

\* the leading run of decimal digits of s, as a number (0 for none)
RECURSIVE DigitsValue(_, _)
DigitsValue(s, acc) ==
    IF s # <<>> /\ IsDigit(Head(s)) THEN DigitsValue(Tail(s), acc * 10 + DigitVal(Head(s)))
    ELSE acc

\* parseInt that stops after the first digit
ParseInt_OneDigit(s) ==
    LET t    == TrimStart(s)
        neg  == t # <<>> /\ Head(t) = "-"
        sgn  == t # <<>> /\ Head(t) \in {"-", "+"}
        body == IF sgn THEN Tail(t) ELSE t
    IN  IF body = <<>> \/ ~IsDigit(Head(body))
        THEN [nan |-> TRUE, val |-> 0]
        ELSE [nan |-> FALSE,
              val |-> IF neg THEN 0 - DigitVal(Head(body)) ELSE DigitVal(Head(body))]

\* parseInt(s, 10): leading whitespace skipped, one optional sign, then the
\* longest run of digits; NaN when there is no digit at that place.
ParseInt(s) ==
    LET t    == TrimStart(s)
        neg  == t # <<>> /\ Head(t) = "-"
        sgn  == t # <<>> /\ Head(t) \in {"-", "+"}
        body == IF sgn THEN Tail(t) ELSE t
    IN  IF body = <<>> \/ ~IsDigit(Head(body))
        THEN [nan |-> TRUE, val |-> 0]
        ELSE [nan |-> FALSE,
              val |-> IF neg THEN 0 - DigitsValue(body, 0) ELSE DigitsValue(body, 0)]

\* A JavaScript value handed to parseCronToMs: a string, or something else.
StrVal(s) == [type |-> "string", chars |-> s]

\* `!cron`: undefined, null and the empty string are falsy (a number or an
\* object is caught by the typeof test)
Falsy(v) == v.type \in {"undefined", "null"} \/ (v.type = "string" /\ v.chars = <<>>)

DefaultIntervalMs == 5 * 60 * 1000

HourMs == 60 * 60 * 1000

MinuteMs == 60 * 1000

\* parseCronToMs without the test of the number of fields (line 51)
parseCronToMs_AnyFieldCount(cron) ==
    IF Falsy(cron) \/ cron.type # "string" THEN DefaultIntervalMs
    ELSE LET parts  == SplitWs(Trim(cron.chars)) \o <<<<>>, <<>>>>
             minute == parts[1]
             hour   == parts[2]
         IN  IF StartsWithStarSlash(minute)
             THEN LET n == ParseInt(Slice2(minute)) IN
                  IF n.nan THEN DefaultIntervalMs ELSE n.val * MinuteMs
             ELSE IF minute = <<"0">>
                  THEN IF StartsWithStarSlash(hour)
                       THEN LET h == ParseInt(Slice2(hour)) IN
                            IF h.nan THEN HourMs ELSE h.val * HourMs
                       ELSE HourMs
                  ELSE DefaultIntervalMs

parseCronToMs(cron) ==
    IF Falsy(cron) \/ cron.type # "string" THEN DefaultIntervalMs
    ELSE LET parts == SplitWs(Trim(cron.chars)) IN
         IF Len(parts) # 5 THEN DefaultIntervalMs
         ELSE LET minute == parts[1]
                  hour   == parts[2]
              IN  IF StartsWithStarSlash(minute)
                  THEN LET n == ParseInt(Slice2(minute)) IN
                       IF n.nan THEN DefaultIntervalMs ELSE n.val * MinuteMs
                  ELSE IF minute = <<"0">>
                       THEN IF StartsWithStarSlash(hour)
                            THEN LET h == ParseInt(Slice2(hour)) IN
                                 IF h.nan THEN HourMs ELSE h.val * HourMs
                            ELSE HourMs
                       ELSE DefaultIntervalMs

-----------------------------------------------------------------------------
(* Parser harness: schedule values built from a recipe, so that what the   *)
(* parser returns can be compared with what the value was built from.      *)

Space == <<" ">>

\* Number.prototype.toString for an integer
IntStr(n) == IF n < 0 THEN <<"-">> \o DecStr(0 - n) ELSE DecStr(n)

\* the field '*/N'
Every(n) == <<"*", "/">> \o IntStr(n)

\* fields that are not '*/N', '0' or '*'
MinuteLits == {<<"0">>, <<"*">>, <<"5">>, <<"0", "0">>, <<"0", "x">>,
               <<"*", "/">>, <<"*", "/", "x">>, <<"*", "/", "1", "x">>}

HourLits == {<<"*">>, <<"8">>, <<"*", "/">>, <<"*", "/", "x">>, <<"*", "/", "2", "x">>}

FieldRecipes(lits) ==
    [k : {"every"}, n : (0 - 1)..MaxN, s : {<<>>}] \cup [k : {"lit"}, n : {0}, s : lits]

FieldChars(f) == IF f.k = "every" THEN Every(f.n) ELSE f.s

CronRecipes ==
    [type : {"string"}, minute : FieldRecipes(MinuteLits), hour : FieldRecipes(HourLits),
     nfields : {1, 4, 5, 6}, sep : {Space, <<" ", "\t">>}, pad : {<<>>, Space}]
    \cup [type : {"undefined", "null", "number", "object", "empty"},
          minute : {[k |-> "lit", n |-> 0, s |-> <<"*">>]},
          hour : {[k |-> "lit", n |-> 0, s |-> <<"*">>]},
          nfields : {0}, sep : {Space}, pad : {<<>>}]

RECURSIVE Stars(_, _)
Stars(k, sep) == IF k <= 0 THEN <<>> ELSE sep \o <<"*">> \o Stars(k - 1, sep)

\* the JavaScript value a recipe stands for
CronValue(r) ==
    IF r.type = "empty" THEN StrVal(<<>>)
    ELSE IF r.type # "string" THEN [type |-> r.type, chars |-> <<>>]
    ELSE StrVal(r.pad \o FieldChars(r.minute)
                \o (IF r.nfields >= 2 THEN r.sep \o FieldChars(r.hour) ELSE <<>>)
                \o Stars(r.nfields - 2, r.sep) \o r.pad)

CronStar == [k |-> "lit", n |-> 0, s |-> <<"*">>]

\* the schedule the service seeds: '*/10 * * * *'
DefaultRecipe ==
    [type |-> "string", minute |-> [k |-> "every", n |-> 10, s |-> <<>>], hour |-> CronStar,
     nfields |-> 5, sep |-> Space, pad |-> <<>>]

CronInit ==
    /\ cronIn \in CronRecipes
    /\ cronOut = 0
    /\ cronPc = "ready"

CronIdle ==
    /\ cronIn = DefaultRecipe
    /\ cronOut = 0
    /\ cronPc = "idle"

CronParse ==
    /\ cronPc = "ready"
    /\ cronOut' = parseCronToMs(CronValue(cronIn))
    /\ cronPc' = "done"
    /\ UNCHANGED <<cronIn>>
    /\ UNCHANGED <<orchVars, fpVars, sessVars, readVars>>

-----------------------------------------------------------------------------
(* Listings, the Listing table and the fingerprint.                        *)

\* An extracted item: the stable fields and one field outside them.
ItemA == [title |-> "a", price |-> "1", url |-> 1, description |-> 1]

\* ItemA again with another description: the same (title, price, url)
ItemA2 == [title |-> "a", price |-> "1", url |-> 1, description |-> 2]

\* another listing under the url of ItemA
ItemB == [title |-> "b", price |-> "1", url |-> 1, description |-> 1]

ItemC == [title |-> "c", price |-> "2", url |-> 2, description |-> 1]

ItemU == {ItemA, ItemA2, ItemB, ItemC}

\* two listings under one url whose titles and prices differ and whose
\* texts joined by '-' are the same
ItemD == [title |-> "a-1", price |-> "1", url |-> 1, description |-> 1]

ItemE == [title |-> "a", price |-> "1-1", url |-> 1, description |-> 1]

SeqsUpTo(S, n) == UNION {[1..k -> S] : k \in 0..n}

\* what one extraction may return, in the change-detection specification
Batches == SeqsUpTo(ItemU, MaxItems)

\* what one extraction may return, in the specification of the dedup key
KeyBatches == SeqsUpTo({ItemC, ItemD, ItemE}, MaxItems)

\* what one extraction may return, in the specification of the readers
ReadBatches == SeqsUpTo({ItemA, ItemC}, 1)

\* what one extraction may return, in the orchestrator specification
OrchBatches == {<<>>, <<ItemA>>}

\* config.website.selectors[0]
selectors0 == "sel0"

\* config.website.selectors with two entries
Selectors == <<selectors0, "sel1">>

\* the selectors a check passes to the extraction, to getPreviousHash, to
\* the read of the previous rows and to saveContent (lines 953, 964, 973, 977)
TargetsOf(selectors) == {selectors[1]}

Triple(i) == [title |-> i.title, price |-> i.price, url |-> i.url]

RECURSIVE MapTriple(_)
MapTriple(q) == IF q = <<>> THEN <<>> ELSE <<Triple(Head(q))>> \o MapTriple(Tail(q))

\* a.url.localeCompare(b.url) < 0
UrlBefore(a, b) == a.url < b.url

\* insert x after every element that does not come after it (stable)
RECURSIVE InsertByUrl(_, _)
InsertByUrl(x, q) ==
    IF q = <<>> THEN <<x>>
    ELSE IF UrlBefore(x, Head(q)) THEN <<x>> \o q
         ELSE <<Head(q)>> \o InsertByUrl(x, Tail(q))

\* Array.prototype.sort((a, b) => a.url.localeCompare(b.url)): stable, by url only
RECURSIVE SortByUrl(_)
SortByUrl(q) ==
    IF q = <<>> THEN <<>>
    ELSE InsertByUrl(q[Len(q)], SortByUrl(SubSeq(q, 1, Len(q) - 1)))

NullHash == [null |-> TRUE, of |-> <<>>]

\* md5 of the JSON text of the list: equal exactly for equal lists
generateHash(q) == [null |-> FALSE, of |-> q]

\* lines 962-963: the fingerprint of the extracted items
CurrentHash(items) == generateHash(SortByUrl(MapTriple(items)))

RowsOf(sel) == SelectSeq(store, LAMBDA r : r.selector = sel)

RowsNotOf(sel) == SelectSeq(store, LAMBDA r : r.selector # sel)

Perms(n) == {p \in [1..n -> 1..n] : \A i, j \in 1..n : i # j => p[i] # p[j]}

\* ORDER BY timestamp DESC: every order of the rows in which timestamps do
\* not increase; rows with equal timestamps come in an order the database picks
OrderedDesc(rows) ==
    {[i \in 1..Len(rows) |-> rows[p[i]]] : p \in
        {q \in Perms(Len(rows)) :
            \A i, j \in 1..Len(rows) : i < j => rows[q[i]].timestamp >= rows[q[j]].timestamp}}

\* Listing.findOne({ order: [['timestamp', 'DESC']] }): the timestamps a
\* latest row may carry (none when the table is empty)
LatestTimestamps == {q[1].timestamp : q \in {o \in OrderedDesc(store) : o # <<>>}}

\* getPreviousHash on the rows `listings` that findAll returned
PreviousHashOf(listings) ==
    IF Len(listings) = 0 THEN NullHash
    ELSE generateHash(SortByUrl(MapTriple(listings)))

SameTriple(a, b) == a.title = b.title /\ a.price = b.price /\ a.url = b.url

InSeq(x, q) == \E k \in 1..Len(q) : SameTriple(q[k], x)

\* the characters of a title or price
Chars(x) ==
    CASE x = "a" -> <<"a">>
      [] x = "b" -> <<"b">>
      [] x = "c" -> <<"c">>
      [] x = "1" -> <<"1">>
      [] x = "2" -> <<"2">>
      [] x = "a-1" -> <<"a", "-", "1">>
      [] x = "1-1" -> <<"1", "-", "1">>

\* line 320: `${item.title}-${item.price}-${item.url}`
ItemKey(i) == Chars(i.title) \o <<"-">> \o Chars(i.price) \o <<"-">> \o DecStr(i.url)

\* acc.has(key)
HasKey(x, q) == \E k \in 1..Len(q) : ItemKey(q[k]) = ItemKey(x)

\* saveContent without the filter of lines 318-343
UniqueItems_NoFilter(items, existingItems, acc) == acc \o items

\* saveContent, lines 318-343: the first item of each key that is not, by
\* title, price and url, among the rows read after the delete
RECURSIVE UniqueItems(_, _, _)
UniqueItems(items, existingItems, acc) ==
    IF items = <<>> THEN acc
    ELSE UniqueItems(Tail(items), existingItems,
                     IF ~HasKey(Head(items), acc) /\ ~InSeq(Head(items), existingItems)
                     THEN Append(acc, Head(items)) ELSE acc)

\* saveContent, lines 347-361: the rows to insert
RECURSIVE ToRows(_, _, _)
ToRows(items, sel, ts) ==
    IF items = <<>> THEN <<>>
    ELSE <<[title |-> Head(items).title, price |-> Head(items).price, url |-> Head(items).url,
            selector |-> sel, timestamp |-> ts, description |-> Head(items).description]>>
         \o ToRows(Tail(items), sel, ts)

\* the items to announce, taken on a first run from what was stored
NewItems_FirstRunStored(items, previousHash, previousListings) ==
    IF previousHash.null THEN UniqueItems(items, <<>>, <<>>)
    ELSE SelectSeq(items, LAMBDA i : ~InSeq(i, previousListings))

\* the items to announce, with the description compared as well
NewItems_AnyField(items, previousHash, previousListings) ==
    IF previousHash.null THEN items
    ELSE SelectSeq(items, LAMBDA i :
             ~\E k \in 1..Len(previousListings) :
                 /\ SameTriple(previousListings[k], i)
                 /\ previousListings[k].description = i.description)

\* lines 979-995: the items to announce
NewItems(items, previousHash, previousListings) ==
    IF previousHash.null THEN items
    ELSE SelectSeq(items, LAMBDA i : ~InSeq(i, previousListings))

-----------------------------------------------------------------------------
(* Fingerprint harness: a list of items is hashed as extracted and as      *)
(* stored rows, in the order given and in another order of the same list.  *)

FpLists == SeqsUpTo(ItemU, MaxFp)

\* the list q in the order p
Permute(q, p) == [i \in 1..Len(q) |-> q[p[i]]]

NoFingerprint ==
    [pc |-> "idle", items |-> <<>>, order |-> <<>>, current |-> NullHash,
     reordered |-> NullHash, stored |-> NullHash, storedReordered |-> NullHash]

FpIdle == fp = NoFingerprint

FpInit ==
    fp \in {[NoFingerprint EXCEPT !.pc = "ready", !.items = q, !.order = p] :
               q \in FpLists, p \in Perms(MaxFp)}

\* lines 962-963 on the list and on its reordering, lines 397-400 on the rows
\* of the list and on the rows in the other order
Fingerprint ==
    /\ fp.pc = "ready"
    /\ LET n     == Len(fp.items)
           order == SelectSeq(fp.order, LAMBDA i : i <= n)
           rows  == ToRows(fp.items, selectors0, now)
       IN  fp' = [fp EXCEPT !.pc = "done",
                            !.current = CurrentHash(fp.items),
                            !.reordered = CurrentHash(Permute(fp.items, order)),
                            !.stored = PreviousHashOf(rows),
                            !.storedReordered = PreviousHashOf(Permute(rows, order))]
    /\ UNCHANGED <<orchVars, cronVars, sessVars, readVars>>

-----------------------------------------------------------------------------
(* Session state of the website-monitor module.                            *)

Callers == 1..MaxCallers

\* let lastLoginTime = null
NoLogin == [null |-> TRUE, at |-> 0]

LoginAt(t) == [null |-> FALSE, at |-> t]

\* let browser = null, let lastBrowserStart = null: instances are numbered
\* from 1 in the order of their launch, and no instant is 0
NoBrowser == 0

\* A caller is one checkWebsite call between its start and the moment its
\* session is settled (extraction may begin) or it has rejected.
\*   pc: the await the call is suspended on
\*   started: `now` of initializeBrowser (line 144)
\*   site: which call of login() it is in
\*   logins: how often this call has entered login()
\*   lastLogin: how the last login() in this caller's history ended
\*   via: how initializeBrowser returned to this call
\*   inst: the browser instance whose page this call works on
\*   probe: what checkUnauthorized told this call (line 506)
IdleCaller ==
    [pc |-> "idle", started |-> 0, site |-> "none", logins |-> 0, lastLogin |-> "none",
     via |-> "none", inst |-> NoBrowser, probe |-> "none"]

\* lines 17-23; loginBrowser and loginDone are the instance and the instant
\* of the last login() that passed its verification
SessInit ==
    /\ isLoggedIn = FALSE
    /\ lastLoginTime = NoLogin
    /\ loginInProgress = FALSE
    /\ sess = [c \in Callers |-> IdleCaller]
    /\ browser = NoBrowser
    /\ lastBrowserStart = NoBrowser
    /\ launched = 0
    /\ loginBrowser = NoBrowser
    /\ loginDone = NoLogin

\* line 21
LOGIN_TIMEOUT == 24 * 60 * 60 * 1000

\* line 22
BROWSER_RESTART_TIMEOUT == 12 * 60 * 60 * 1000

\* line 509
RECENT_LOGIN_GRACE_MS == 10 * 60 * 1000

\* line 181: the period of the poll for the end of a login
PollMs == 1000

\* the instants the session clock takes: the start, a poll period later, a
\* grace window later, a browser lifetime later, and the same after each
\* login timeout
SessTimes ==
    {BootMs + k * (LOGIN_TIMEOUT + 1) + g :
        k \in 0..MaxLoginAge,
        g \in {0, PollMs, RECENT_LOGIN_GRACE_MS, BROWSER_RESTART_TIMEOUT + 1}}

\* what the steps of the session phase leave alone
sessFrame == <<scheduleIntervalMs, nextCheckTs, cyc, cfgReq, emitted, arrived, response,
               lastCycle, store, prevCheck, lastCfg, itemsBody>>

browserVars == <<browser, lastBrowserStart, launched>>

loginVars == <<isLoggedIn, lastLoginTime, loginInProgress, loginBrowser, loginDone>>

\* time passes: up to a poll period while a call is in flight (its awaited
\* operations carry timeouts of 30 and 60 seconds, far below the grace
\* window), any span between calls
SessionTimePasses ==
    /\ \E t \in SessTimes :
          /\ t > now
          /\ t - now <= PollMs \/ \A c \in Callers : sess[c].pc \in {"idle", "failed"}
          /\ now' = t
    /\ UNCHANGED <<isCheckingRunning, sessVars, sessFrame, cronVars, fpVars>>

\* line 176: the login is missing or older than the timeout
LoginRequired(at) ==
    \/ ~isLoggedIn
    \/ lastLoginTime.null
    \/ at - lastLoginTime.at > LOGIN_TIMEOUT

\* The catch of checkWebsite, lines 1005-1012: the session is marked
\* logged-out when the message of the error holds 'login' or 'unauthorized';
\* the error is rethrown, the cycle ends and its trigger clears the guard.
Rejected(c, last, in, at) ==
    /\ sess' = [sess EXCEPT ![c].pc = "failed", ![c].site = "none", ![c].lastLogin = last,
                            ![c].started = 0, ![c].via = "none", ![c].inst = NoBrowser,
                            ![c].probe = "none"]
    /\ isCheckingRunning' = FALSE
    /\ \E mentionsLogin \in BOOLEAN :
          IF mentionsLogin
          THEN isLoggedIn' = FALSE /\ lastLoginTime' = NoLogin
          ELSE isLoggedIn' = in /\ lastLoginTime' = at

\* A trigger of the orchestrator passes the guard and calls checkWebsite,
\* which awaits loadConfig (lines 485-489)
SessionStart(c) ==
    /\ ~isCheckingRunning
    /\ sess[c].pc \in {"idle", "failed"}
    /\ \A d \in Callers : sess[d].pc \in {"idle", "failed"} => c <= d
    /\ isCheckingRunning' = TRUE
    /\ sess' = [sess EXCEPT ![c].pc = "loadConfig", ![c].logins = 0]
    /\ UNCHANGED <<now, loginVars, browserVars>>
    /\ UNCHANGED <<sessFrame, cronVars, fpVars>>

\* A trigger of the website-monitor service calls checkWebsite: the start-up
\* check and the cron job of startMonitoring (lines 1036, 1039-1042) and its
\* POST /api/check (line 1130); none of them tests a guard
MonitorCheck(c) ==
    /\ sess[c].pc \in {"idle", "failed"}
    /\ \A d \in Callers : sess[d].pc \in {"idle", "failed"} => c <= d
    /\ sess' = [sess EXCEPT ![c].pc = "loadConfig", ![c].logins = 0]
    /\ UNCHANGED <<now, isCheckingRunning, loginVars, browserVars>>
    /\ UNCHANGED <<sessFrame, cronVars, fpVars>>

\* the login test without the wait of lines 177-184
LoginTest_NoWait(c, at, b) ==
    IF LoginRequired(at)
    THEN /\ loginInProgress' = TRUE
         /\ sess' = [sess EXCEPT ![c].pc = "login", ![c].site = "init", ![c].started = at,
                                 ![c].logins = @ + 1, ![c].inst = b]
    ELSE /\ sess' = [sess EXCEPT ![c].pc = "probe", ![c].started = at, ![c].via = "reuse",
                                 ![c].inst = b]
         /\ UNCHANGED loginInProgress

\* initializeBrowser, lines 175-202, with `now` = at and the browser b: the
\* test of the login state; the caller polls when a login is in flight, calls
\* login() when one is required, and returns otherwise
LoginTest(c, at, b) ==
    IF LoginRequired(at)
    THEN IF loginInProgress
         THEN /\ sess' = [sess EXCEPT ![c].pc = "wait", ![c].started = at]
              /\ UNCHANGED loginInProgress
         ELSE /\ loginInProgress' = TRUE
              /\ sess' = [sess EXCEPT ![c].pc = "login", ![c].site = "init", ![c].started = at,
                                      ![c].logins = @ + 1, ![c].inst = b]
    ELSE /\ sess' = [sess EXCEPT ![c].pc = "probe", ![c].started = at, ![c].via = "reuse",
                                 ![c].inst = b]
         /\ UNCHANGED loginInProgress

\* initializeBrowser, lines 143-176, entered when loadConfig has ended: an
\* old browser is closed, a missing one launched, and with a browser at hand
\* the login state is tested at once
InitializeBrowser(c) ==
    /\ sess[c].pc = "loadConfig"
    /\ IF /\ browser # NoBrowser
          /\ lastBrowserStart # NoBrowser
          /\ now - lastBrowserStart > BROWSER_RESTART_TIMEOUT
       THEN /\ sess' = [sess EXCEPT ![c].pc = "closeBrowser", ![c].started = now]
            /\ UNCHANGED loginInProgress
       ELSE IF browser = NoBrowser
            THEN /\ sess' = [sess EXCEPT ![c].pc = "launch", ![c].started = now]
                 /\ UNCHANGED loginInProgress
            ELSE LoginTest(c, now, browser)
    /\ UNCHANGED <<now, isCheckingRunning, isLoggedIn, lastLoginTime, loginBrowser, loginDone,
                   browserVars>>
    /\ UNCHANGED <<sessFrame, cronVars, fpVars>>

\* initializeBrowser, lines 150-159: browser.close has ended (an error of it
\* is swallowed); the browser is dropped and a new one launched
BrowserClosed(c) ==
    /\ sess[c].pc = "closeBrowser"
    /\ browser' = NoBrowser
    /\ sess' = [sess EXCEPT ![c].pc = "launch"]
    /\ UNCHANGED <<now, isCheckingRunning, loginVars, lastBrowserStart, launched>>
    /\ UNCHANGED <<sessFrame, cronVars, fpVars>>

\* initializeBrowser, lines 159-176: puppeteer.launch has ended; the new
\* instance is kept and the login state tested, or the launch rejected
BrowserLaunched(c) ==
    /\ sess[c].pc = "launch"
    /\ \/ /\ launched < MaxBrowsers
          /\ browser' = launched + 1
          /\ launched' = launched + 1
          /\ lastBrowserStart' = sess[c].started
          /\ LoginTest(c, sess[c].started, launched + 1)
          /\ UNCHANGED <<isCheckingRunning, isLoggedIn, lastLoginTime>>
       \/ /\ Rejected(c, sess[c].lastLogin, isLoggedIn, lastLoginTime)
          /\ UNCHANGED <<loginInProgress, browserVars>>
    /\ UNCHANGED <<now, loginBrowser, loginDone>>
    /\ UNCHANGED <<sessFrame, cronVars, fpVars>>

\* what follows a rejection of login() in its caller: the finally of lines
\* 197-199 for initializeBrowser, nothing for the re-login of line 520
LoginRejected(c, how, in, at) ==
    /\ Rejected(c, how, in, at)
    /\ loginInProgress' = IF sess[c].site = "init" THEN FALSE ELSE loginInProgress

\* login() with a catch that leaves the session state as it was
LoginEnds_NoReset(c) ==
    /\ sess[c].pc = "login"
    /\ \/ /\ isLoggedIn' = TRUE
          /\ lastLoginTime' = LoginAt(now)
          /\ loginBrowser' = sess[c].inst
          /\ loginDone' = LoginAt(now)
          /\ sess' = [sess EXCEPT ![c].pc = "closePage", ![c].lastLogin = "ok"]
          /\ UNCHANGED <<isCheckingRunning, loginInProgress>>
       \/ /\ sess' = [sess EXCEPT ![c].pc = "closePage", ![c].lastLogin = "failed"]
          /\ UNCHANGED <<isCheckingRunning, isLoggedIn, lastLoginTime, loginInProgress,
                         loginBrowser, loginDone>>
    /\ UNCHANGED <<now, browserVars, sessFrame, cronVars, fpVars>>

\* login(), lines 208-283, up to the await of page.close in its finally:
\*   ok: every step passed and the flags are set (lines 276-277)
\*   failed: a step inside the try threw (navigation, a selector wait, the
\*           submit, the verification of line 272); the catch clears the
\*           flags (lines 279-283)
\*   noPage: browser.newPage (line 210), before the try, rejected; login()
\*           rejects at once
LoginEnds(c) ==
    /\ sess[c].pc = "login"
    /\ \/ /\ isLoggedIn' = TRUE
          /\ lastLoginTime' = LoginAt(now)
          /\ loginBrowser' = sess[c].inst
          /\ loginDone' = LoginAt(now)
          /\ sess' = [sess EXCEPT ![c].pc = "closePage", ![c].lastLogin = "ok"]
          /\ UNCHANGED <<isCheckingRunning, loginInProgress>>
       \/ /\ isLoggedIn' = FALSE
          /\ lastLoginTime' = NoLogin
          /\ sess' = [sess EXCEPT ![c].pc = "closePage", ![c].lastLogin = "failed"]
          /\ UNCHANGED <<isCheckingRunning, loginInProgress, loginBrowser, loginDone>>
       \/ /\ LoginRejected(c, "noPage", isLoggedIn, lastLoginTime)
          /\ UNCHANGED <<loginBrowser, loginDone>>
    /\ UNCHANGED <<now, browserVars, sessFrame, cronVars, fpVars>>

\* login(), lines 284-287: page.close has ended and login() returns or
\* rejects to its caller: lines 195-199 of initializeBrowser, lines 521-525
\* of checkWebsite.  A rejection of page.close rejects a login that had
\* passed (closeFailed).
LoginReturns(c) ==
    /\ sess[c].pc = "closePage"
    /\ \/ /\ sess[c].lastLogin = "ok"
          /\ IF sess[c].site = "init"
             THEN /\ lastLoginTime' = LoginAt(sess[c].started)
                  /\ isLoggedIn' = TRUE
                  /\ loginInProgress' = FALSE
                  /\ sess' = [sess EXCEPT ![c].pc = "probe", ![c].site = "none",
                                          ![c].via = "login", ![c].inst = browser]
             ELSE /\ sess' = [sess EXCEPT ![c].pc = "ready", ![c].site = "none",
                                          ![c].inst = browser]
                  /\ UNCHANGED <<isLoggedIn, lastLoginTime, loginInProgress>>
          /\ UNCHANGED isCheckingRunning
       \/ LoginRejected(c, IF sess[c].lastLogin = "ok" THEN "closeFailed" ELSE "failed",
                        isLoggedIn, lastLoginTime)
    /\ UNCHANGED <<now, loginBrowser, loginDone, browserVars, sessFrame, cronVars, fpVars>>

\* initializeBrowser, lines 180-183: a poll finds no login in flight and
\* initializeBrowser returns
WaitEnds(c) ==
    /\ sess[c].pc = "wait"
    /\ ~loginInProgress
    /\ sess' = [sess EXCEPT ![c].pc = "probe", ![c].via = "wait", ![c].inst = browser]
    /\ UNCHANGED <<now, isCheckingRunning, loginVars, browserVars>>
    /\ UNCHANGED <<sessFrame, cronVars, fpVars>>

\* checkWebsite, lines 493-520: the target page is opened and probed; within
\* the grace window a negative probe is ignored, otherwise the session is
\* marked logged-out, the page closed and login() called
Probe(c) ==
    /\ sess[c].pc = "probe"
    /\ \/ /\ Rejected(c, sess[c].lastLogin, isLoggedIn, lastLoginTime)
          /\ UNCHANGED loginInProgress
       \/ /\ \E probeSaysLogin \in BOOLEAN :
                LET recent == /\ ~lastLoginTime.null
                              /\ now - lastLoginTime.at < RECENT_LOGIN_GRACE_MS
                    needsLogin == probeSaysLogin /\ ~recent
                IN  IF needsLogin
                    THEN /\ isLoggedIn' = FALSE
                         /\ lastLoginTime' = NoLogin
                         /\ sess' = [sess EXCEPT ![c].pc = "login", ![c].site = "relogin",
                                                 ![c].logins = @ + 1, ![c].inst = browser,
                                                 ![c].probe = "loggedOut"]
                    ELSE /\ sess' = [sess EXCEPT ![c].pc = "ready",
                                                 ![c].probe = IF probeSaysLogin THEN "loggedOut"
                                                              ELSE "loggedIn"]
                         /\ UNCHANGED <<isLoggedIn, lastLoginTime>>
          /\ UNCHANGED <<isCheckingRunning, loginInProgress>>
    /\ UNCHANGED <<now, loginBrowser, loginDone, browserVars, sessFrame, cronVars, fpVars>>

\* the rest of the cycle, lines 521-1012: the navigation after a re-login,
\* extraction, change detection and the return or the rejection of
\* checkWebsite; the trigger clears the guard
SessionCycleEnds(c) ==
    /\ sess[c].pc = "ready"
    /\ \/ /\ sess' = [sess EXCEPT ![c] = [IdleCaller EXCEPT !.lastLogin = sess[c].lastLogin]]
          /\ isCheckingRunning' = FALSE
          /\ UNCHANGED <<isLoggedIn, lastLoginTime>>
       \/ Rejected(c, sess[c].lastLogin, isLoggedIn, lastLoginTime)
    /\ UNCHANGED <<now, loginInProgress, loginBrowser, loginDone, browserVars>>
    /\ UNCHANGED <<sessFrame, cronVars, fpVars>>

-----------------------------------------------------------------------------
(* The orchestrator and the check cycle.                                   *)

Slots == 1..MaxCycles

CfgSlots == 1..MaxCfg

\* the clock advances by the default interval
StepMs == DefaultIntervalMs

MaxTime == BootMs + MaxClock * StepMs

\* A slot holds one invocation of the scheduler callback or of the
\* POST /api/check handler from the moment it passes the guard.
\*   pc: where the invocation is suspended (the await it is waiting on)
\*   items .. mailed: the locals of its checkWebsite call
\*   atStart: the target's rows when checkWebsite was called
\*   emailEnabled: config.email.enabled as loadConfig (line 489) left it
\*   sendAttempts, sendFailed: calls of transporter.sendMail, and whether one rejected
IdleCycle ==
    [kind |-> "none", pc |-> "idle", items |-> <<>>,
     previousHash |-> NullHash, previousListings |-> <<>>, existingItems |-> <<>>,
     newItems |-> <<>>, saved |-> FALSE, notified |-> FALSE, mailed |-> FALSE,
     threw |-> FALSE, atStart |-> <<>>,
     emailEnabled |-> FALSE, sendAttempts |-> 0, sendFailed |-> FALSE]

NoResponse == [for |-> "none", status |-> 0]

NoCycle == [kind |-> "none", threw |-> FALSE, updated |-> FALSE]

\* a free slot for a POST /api/config handler
IdleCfg == [pc |-> "idle", schedule |-> DefaultRecipe]

NoCfg == [done |-> FALSE, schedule |-> DefaultRecipe]

NoCheck == [ok |-> FALSE, items |-> <<>>]

Ev(type, nextCheck, listings) == [type |-> type, nextCheck |-> nextCheck, listings |-> listings]

\* emitChecking, lines 203-206
emitChecking == Ev("checking", 0, <<>>)

\* emitNextCheck, lines 329-332
emitNextCheck(ts) == Ev("nextCheck", ts, <<>>)

Running == {s \in Slots : cyc[s].kind # "none"}

FreeSlots == {s \in Slots : cyc[s].kind = "none"}

FirstFree == CHOOSE s \in FreeSlots : \A t \in FreeSlots : s <= t

\* the call checkWebsite() of a cycle of `kind`: it runs to its first await
StartedCycle(kind) ==
    [IdleCycle EXCEPT !.kind = kind, !.pc = "extract", !.atStart = RowsOf(selectors0)]

\* what a step leaves in the variables that describe the step itself
Note(arr, resp, evs, last) ==
    /\ arrived' = arr
    /\ response' = resp
    /\ emitted' = evs
    /\ lastCycle' = last
    /\ lastCfg' = NoCfg

\* The state in which the server starts to serve on a fresh install: the
\* tables are empty, so the start-up loader of lines 68-89, which ran at
\* time 0, has left the interval and the deadline as lines 43-45 set them.
OrchInit ==
    /\ now = BootMs
    /\ scheduleIntervalMs = DefaultIntervalMs
    /\ nextCheckTs = 0 + DefaultIntervalMs
    /\ isCheckingRunning = FALSE
    /\ cyc = [s \in Slots |-> IdleCycle]
    /\ cfgReq = [c \in CfgSlots |-> IdleCfg]
    /\ emitted = <<>>
    /\ arrived = "none"
    /\ response = NoResponse
    /\ lastCycle = NoCycle
    /\ store = <<>>
    /\ prevCheck = NoCheck
    /\ lastCfg = NoCfg

\* time passes
AdvanceTime ==
    /\ now + StepMs <= MaxTime
    /\ now' = now + StepMs
    /\ Note("none", NoResponse, <<>>, NoCycle)
    /\ UNCHANGED <<scheduleIntervalMs, nextCheckTs, isCheckingRunning, cyc, cfgReq, store,
                   prevCheck>>
    /\ UNCHANGED <<cronVars, fpVars, sessVars, readVars>>

\* the scheduler callback without its first line (line 312)
SchedulerTick_NoGuard ==
    /\ IF now >= nextCheckTs
       THEN /\ FreeSlots # {}
            /\ isCheckingRunning' = TRUE
            /\ nextCheckTs' = now + scheduleIntervalMs
            /\ cyc' = [cyc EXCEPT ![FirstFree] = StartedCycle("tick")]
            /\ Note("tick", NoResponse, <<emitChecking>>, NoCycle)
       ELSE /\ Note("tick", NoResponse, <<>>, NoCycle)
            /\ UNCHANGED <<nextCheckTs, isCheckingRunning, cyc>>
    /\ UNCHANGED <<now, scheduleIntervalMs, cfgReq, store, prevCheck>>
    /\ UNCHANGED <<cronVars, fpVars, sessVars, readVars>>

\* setInterval callback, lines 311-318: up to the await of checkWebsite
SchedulerTick ==
    /\ IF isCheckingRunning
       THEN /\ Note("tick", NoResponse, <<>>, NoCycle)
            /\ UNCHANGED <<nextCheckTs, isCheckingRunning, cyc>>
       ELSE IF now >= nextCheckTs
            THEN /\ FreeSlots # {}
                 /\ isCheckingRunning' = TRUE
                 /\ nextCheckTs' = now + scheduleIntervalMs
                 /\ cyc' = [cyc EXCEPT ![FirstFree] = StartedCycle("tick")]
                 /\ Note("tick", NoResponse, <<emitChecking>>, NoCycle)
            ELSE /\ Note("tick", NoResponse, <<>>, NoCycle)
                 /\ UNCHANGED <<nextCheckTs, isCheckingRunning, cyc>>
    /\ UNCHANGED <<now, scheduleIntervalMs, cfgReq, store, prevCheck>>
    /\ UNCHANGED <<cronVars, fpVars, sessVars, readVars>>

\* the POST handler with its guard test inside the try, so that the finally
\* of line 228 runs for a rejected request too
ManualCheck_RejectInTry ==
    /\ IF isCheckingRunning
       THEN /\ Note("check", [for |-> "check", status |-> 429], <<>>, NoCycle)
            /\ isCheckingRunning' = FALSE
            /\ UNCHANGED <<nextCheckTs, cyc>>
       ELSE /\ FreeSlots # {}
            /\ isCheckingRunning' = TRUE
            /\ nextCheckTs' = now + scheduleIntervalMs
            /\ cyc' = [cyc EXCEPT ![FirstFree] = StartedCycle("manual")]
            /\ Note("check", NoResponse, <<emitChecking>>, NoCycle)
    /\ UNCHANGED <<now, scheduleIntervalMs, cfgReq, store, prevCheck>>
    /\ UNCHANGED <<cronVars, fpVars, sessVars, readVars>>

\* the POST handler without line 220
ManualCheck_NoBump ==
    /\ IF isCheckingRunning
       THEN /\ Note("check", [for |-> "check", status |-> 429], <<>>, NoCycle)
            /\ UNCHANGED <<nextCheckTs, isCheckingRunning, cyc>>
       ELSE /\ FreeSlots # {}
            /\ isCheckingRunning' = TRUE
            /\ UNCHANGED nextCheckTs
            /\ cyc' = [cyc EXCEPT ![FirstFree] = StartedCycle("manual")]
            /\ Note("check", NoResponse, <<emitChecking>>, NoCycle)
    /\ UNCHANGED <<now, scheduleIntervalMs, cfgReq, store, prevCheck>>
    /\ UNCHANGED <<cronVars, fpVars, sessVars, readVars>>

\* POST /api/check, lines 212-221: up to the await of checkWebsite
ManualCheck ==
    /\ IF isCheckingRunning
       THEN /\ Note("check", [for |-> "check", status |-> 429], <<>>, NoCycle)
            /\ UNCHANGED <<nextCheckTs, isCheckingRunning, cyc>>
       ELSE /\ FreeSlots # {}
            /\ isCheckingRunning' = TRUE
            /\ nextCheckTs' = now + scheduleIntervalMs
            /\ cyc' = [cyc EXCEPT ![FirstFree] = StartedCycle("manual")]
            /\ Note("check", NoResponse, <<emitChecking>>, NoCycle)
    /\ UNCHANGED <<now, scheduleIntervalMs, cfgReq, store, prevCheck>>
    /\ UNCHANGED <<cronVars, fpVars, sessVars, readVars>>

\* the POST handler without its finally (lines 227-229)
CheckThrew_NoFinally(s) ==
    /\ prevCheck' = NoCheck
    /\ IF cyc[s].kind = "tick"
       THEN /\ cyc' = [cyc EXCEPT ![s].pc = "emit", ![s].threw = TRUE]
            /\ Note("none", NoResponse, <<>>, NoCycle)
            /\ UNCHANGED isCheckingRunning
       ELSE /\ cyc' = [cyc EXCEPT ![s] = IdleCycle]
            /\ UNCHANGED isCheckingRunning
            /\ Note("none", [for |-> "check", status |-> 500], <<>>,
                    [kind |-> cyc[s].kind, threw |-> TRUE, updated |-> FALSE])

\* checkWebsite rejects in slot s.  The scheduler callback catches it (lines
\* 319-323) and goes on to emitListingsUpdate; the POST handler goes to its
\* catch and finally (lines 224-229).
CheckThrew(s) ==
    /\ prevCheck' = NoCheck
    /\ IF cyc[s].kind = "tick"
       THEN /\ cyc' = [cyc EXCEPT ![s].pc = "emit", ![s].threw = TRUE]
            /\ Note("none", NoResponse, <<>>, NoCycle)
            /\ UNCHANGED isCheckingRunning
       ELSE /\ cyc' = [cyc EXCEPT ![s] = IdleCycle]
            /\ isCheckingRunning' = FALSE
            /\ Note("none", [for |-> "check", status |-> 500], <<>>,
                    [kind |-> cyc[s].kind, threw |-> TRUE, updated |-> FALSE])

\* checkWebsite, lines 485-959: loadConfig, the session, navigation and the
\* extraction, which either yield content.items or throw
Extract(s, batches) ==
    /\ cyc[s].pc = "extract"
    /\ \/ \E items \in batches, enabled \in BOOLEAN :
            /\ cyc' = [cyc EXCEPT ![s].pc = "previousHash", ![s].items = items,
                                  ![s].emailEnabled = enabled]
            /\ Note("none", NoResponse, <<>>, NoCycle)
            /\ UNCHANGED <<isCheckingRunning, prevCheck>>
       \/ CheckThrew(s)
    /\ UNCHANGED <<now, scheduleIntervalMs, nextCheckTs, cfgReq, store>>
    /\ UNCHANGED <<cronVars, fpVars, sessVars, readVars>>

\* checkWebsite, lines 964-968: getPreviousHash and the comparison.  When
\* the read of getPreviousHash rejects, its catch returns null (lines
\* 401-404), as it does for a target without rows.
GetPreviousHash(s) ==
    /\ cyc[s].pc = "previousHash"
    /\ \E previousHash \in {PreviousHashOf(listings) :
                               listings \in OrderedDesc(RowsOf(selectors0))} \cup {NullHash} :
          LET changed == previousHash.null \/ CurrentHash(cyc[s].items) # previousHash
          IN  cyc' = [cyc EXCEPT ![s].previousHash = previousHash,
                                 ![s].pc = IF changed THEN "previousListings" ELSE "close"]
    /\ Note("none", NoResponse, <<>>, NoCycle)
    /\ UNCHANGED <<now, scheduleIntervalMs, nextCheckTs, isCheckingRunning, cfgReq, store,
                   prevCheck>>
    /\ UNCHANGED <<cronVars, fpVars, sessVars, readVars>>

\* checkWebsite, lines 972-977: the previous rows, then the call of saveContent
FetchPrevious(s) ==
    /\ cyc[s].pc = "previousListings"
    /\ \E listings \in OrderedDesc(RowsOf(selectors0)) :
          cyc' = [cyc EXCEPT ![s].previousListings = listings, ![s].saved = TRUE,
                             ![s].pc = "destroy"]
    /\ Note("none", NoResponse, <<>>, NoCycle)
    /\ UNCHANGED <<now, scheduleIntervalMs, nextCheckTs, isCheckingRunning, cfgReq, store,
                   prevCheck>>
    /\ UNCHANGED <<cronVars, fpVars, sessVars, readVars>>

\* saveContent, lines 306-309: Listing.destroy
Destroy(s) ==
    /\ cyc[s].pc = "destroy"
    /\ store' = RowsNotOf(selectors0)
    /\ cyc' = [cyc EXCEPT ![s].pc = "existing"]
    /\ Note("none", NoResponse, <<>>, NoCycle)
    /\ UNCHANGED <<now, scheduleIntervalMs, nextCheckTs, isCheckingRunning, cfgReq, prevCheck>>
    /\ UNCHANGED <<cronVars, fpVars, sessVars, readVars>>

\* the rows for the diff taken from the read that follows the delete
FindExisting_AsPrevious(s) ==
    /\ cyc[s].pc = "existing"
    /\ cyc' = [cyc EXCEPT ![s].existingItems = RowsOf(selectors0),
                          ![s].previousListings = RowsOf(selectors0), ![s].pc = "bulkCreate"]
    /\ Note("none", NoResponse, <<>>, NoCycle)
    /\ UNCHANGED <<now, scheduleIntervalMs, nextCheckTs, isCheckingRunning, cfgReq, store,
                   prevCheck>>
    /\ UNCHANGED <<cronVars, fpVars, sessVars, readVars>>

\* saveContent, lines 312-315: Listing.findAll after the delete
FindExisting(s) ==
    /\ cyc[s].pc = "existing"
    /\ cyc' = [cyc EXCEPT ![s].existingItems = RowsOf(selectors0), ![s].pc = "bulkCreate"]
    /\ Note("none", NoResponse, <<>>, NoCycle)
    /\ UNCHANGED <<now, scheduleIntervalMs, nextCheckTs, isCheckingRunning, cfgReq, store,
                   prevCheck>>
    /\ UNCHANGED <<cronVars, fpVars, sessVars, readVars>>

\* saveContent, lines 318-378, and checkWebsite, lines 979-1001: the insert
\* (with the count that follows it), then the items to announce
BulkCreate(s) ==
    /\ cyc[s].pc = "bulkCreate"
    /\ LET uniqueItemsArray == UniqueItems(cyc[s].items, cyc[s].existingItems, <<>>)
           newItems == NewItems(cyc[s].items, cyc[s].previousHash, cyc[s].previousListings)
       IN  \/ /\ store' = store \o ToRows(uniqueItemsArray, selectors0, now)
              /\ cyc' = [cyc EXCEPT ![s].newItems = newItems,
                                    ![s].pc = IF Len(newItems) > 0 THEN "notify" ELSE "close"]
              /\ Note("none", NoResponse, <<>>, NoCycle)
              /\ UNCHANGED <<isCheckingRunning, prevCheck>>
           \/ /\ Len(uniqueItemsArray) > 0
              /\ UNCHANGED store
              /\ CheckThrew(s)
    /\ UNCHANGED <<now, scheduleIntervalMs, nextCheckTs, cfgReq>>
    /\ UNCHANGED <<cronVars, fpVars, sessVars, readVars>>

\* sendEmailNotification without its first line (line 411)
Notify_IgnoreFlag(s) ==
    /\ cyc[s].pc = "notify"
    /\ \E rejected \in BOOLEAN :
          cyc' = [cyc EXCEPT ![s].notified = TRUE, ![s].mailed = TRUE,
                             ![s].sendAttempts = @ + 1, ![s].sendFailed = rejected,
                             ![s].pc = "close"]
    /\ Note("none", NoResponse, <<>>, NoCycle)
    /\ UNCHANGED <<now, scheduleIntervalMs, nextCheckTs, isCheckingRunning, cfgReq, store,
                   prevCheck>>
    /\ UNCHANGED <<cronVars, fpVars, sessVars, readVars>>

\* sendEmailNotification without the catch of lines 476-478: a rejected
\* sendMail rejects checkWebsite
Notify_Rethrow(s) ==
    /\ cyc[s].pc = "notify"
    /\ IF cyc[s].emailEnabled
       THEN \/ /\ cyc' = [cyc EXCEPT ![s].notified = TRUE, ![s].mailed = TRUE,
                                     ![s].sendAttempts = @ + 1, ![s].pc = "close"]
               /\ Note("none", NoResponse, <<>>, NoCycle)
               /\ UNCHANGED <<isCheckingRunning, prevCheck>>
            \/ /\ prevCheck' = NoCheck
               /\ IF cyc[s].kind = "tick"
                  THEN /\ cyc' = [cyc EXCEPT ![s].notified = TRUE, ![s].mailed = TRUE,
                                             ![s].sendAttempts = @ + 1,
                                             ![s].sendFailed = TRUE,
                                             ![s].pc = "emit", ![s].threw = TRUE]
                       /\ Note("none", NoResponse, <<>>, NoCycle)
                       /\ UNCHANGED isCheckingRunning
                  ELSE /\ cyc' = [cyc EXCEPT ![s] = IdleCycle]
                       /\ isCheckingRunning' = FALSE
                       /\ Note("none", [for |-> "check", status |-> 500], <<>>,
                               [kind |-> cyc[s].kind, threw |-> TRUE, updated |-> FALSE])
       ELSE /\ cyc' = [cyc EXCEPT ![s].notified = TRUE, ![s].pc = "close"]
            /\ Note("none", NoResponse, <<>>, NoCycle)
            /\ UNCHANGED <<isCheckingRunning, prevCheck>>
    /\ UNCHANGED <<now, scheduleIntervalMs, nextCheckTs, cfgReq, store>>
    /\ UNCHANGED <<cronVars, fpVars, sessVars, readVars>>

\* sendEmailNotification, lines 410-480: nothing when config.email.enabled
\* is false (line 411); otherwise one sendMail, whose rejection is caught
\* (lines 474-479)
Notify(s) ==
    /\ cyc[s].pc = "notify"
    /\ IF cyc[s].emailEnabled
       THEN \E rejected \in BOOLEAN :
               cyc' = [cyc EXCEPT ![s].notified = TRUE, ![s].mailed = TRUE,
                                  ![s].sendAttempts = @ + 1, ![s].sendFailed = rejected,
                                  ![s].pc = "close"]
       ELSE cyc' = [cyc EXCEPT ![s].notified = TRUE, ![s].pc = "close"]
    /\ Note("none", NoResponse, <<>>, NoCycle)
    /\ UNCHANGED <<now, scheduleIntervalMs, nextCheckTs, isCheckingRunning, cfgReq, store,
                   prevCheck>>
    /\ UNCHANGED <<cronVars, fpVars, sessVars, readVars>>

\* checkWebsite, lines 1003-1004: page.close and the return; both callers
\* then await emitListingsUpdate
CloseAndReturn(s) ==
    /\ cyc[s].pc = "close"
    /\ cyc' = [cyc EXCEPT ![s].pc = "emit"]
    /\ prevCheck' = [ok |-> TRUE, items |-> cyc[s].items]
    /\ Note("none", NoResponse, <<>>, NoCycle)
    /\ UNCHANGED <<now, scheduleIntervalMs, nextCheckTs, isCheckingRunning, cfgReq, store>>
    /\ UNCHANGED <<cronVars, fpVars, sessVars, readVars>>

\* emitListingsUpdate, lines 185-200, and what follows it in the caller:
\* line 325 for the scheduler, lines 223 and 228 for the POST handler
EmitListingsUpdate(s) ==
    /\ cyc[s].pc = "emit"
    /\ \/ \E listings \in OrderedDesc(store) :
            /\ nextCheckTs' = now + scheduleIntervalMs
            /\ Note("none",
                    IF cyc[s].kind = "manual" THEN [for |-> "check", status |-> 200]
                    ELSE NoResponse,
                    <<Ev("listingsUpdate", now + scheduleIntervalMs, listings),
                      emitNextCheck(now + scheduleIntervalMs)>>,
                    [kind |-> cyc[s].kind, threw |-> cyc[s].threw, updated |-> TRUE])
       \/ /\ UNCHANGED nextCheckTs
          /\ Note("none",
                  IF cyc[s].kind = "manual" THEN [for |-> "check", status |-> 200]
                  ELSE NoResponse,
                  <<>>,
                  [kind |-> cyc[s].kind, threw |-> cyc[s].threw, updated |-> FALSE])
    /\ isCheckingRunning' = FALSE
    /\ cyc' = [cyc EXCEPT ![s] = IdleCycle]
    /\ UNCHANGED <<now, scheduleIntervalMs, cfgReq, store, prevCheck>>
    /\ UNCHANGED <<cronVars, fpVars, sessVars, readVars>>

\* the schedules POST /api/config carries: '*/N * * * *' for N = -1 and for
\* N from 1 to MaxEvery
OrchSchedules ==
    {[DefaultRecipe EXCEPT !.minute = [k |-> "every", n |-> n, s |-> <<>>]] :
        n \in {0 - 1} \cup 1..MaxEvery}

\* POST /api/config with a schedule, lines 123-138: up to the await of
\* Config.upsert
ConfigPost(c) ==
    /\ cfgReq[c].pc = "idle"
    /\ \A d \in CfgSlots : cfgReq[d].pc = "idle" => c <= d
    /\ \E r \in OrchSchedules : cfgReq' = [cfgReq EXCEPT ![c] = [pc |-> "upsert", schedule |-> r]]
    /\ Note("config", NoResponse, <<>>, NoCycle)
    /\ UNCHANGED <<now, scheduleIntervalMs, nextCheckTs, isCheckingRunning, cyc, store,
                   prevCheck>>
    /\ UNCHANGED <<cronVars, fpVars, sessVars, readVars>>

\* the handler's catch, lines 159-162
ConfigFailed(c) ==
    /\ cfgReq' = [cfgReq EXCEPT ![c] = IdleCfg]
    /\ Note("none", [for |-> "config", status |-> 500], <<>>, NoCycle)

\* lines 139-141: the upsert has ended; the interval is re-parsed and
\* Listing.findOne awaited
ConfigUpserted(c) ==
    /\ cfgReq[c].pc = "upsert"
    /\ \/ /\ scheduleIntervalMs' = parseCronToMs(CronValue(cfgReq[c].schedule))
          /\ cfgReq' = [cfgReq EXCEPT ![c].pc = "findOne"]
          /\ Note("none", NoResponse, <<>>, NoCycle)
       \/ /\ ConfigFailed(c)
          /\ UNCHANGED scheduleIntervalMs
    /\ UNCHANGED <<now, nextCheckTs, isCheckingRunning, cyc, store, prevCheck>>
    /\ UNCHANGED <<cronVars, fpVars, sessVars, readVars>>

\* lines 142-148: the deadline from the latest row's timestamp
Reanchor(lastTs) ==
    IF lastTs + scheduleIntervalMs <= now THEN now + scheduleIntervalMs
    ELSE lastTs + scheduleIntervalMs

\* lines 141-158: findOne has ended; the deadline is re-anchored, broadcast,
\* and the request answered
ConfigAnchor(c) ==
    /\ cfgReq[c].pc = "findOne"
    /\ \/ /\ \E lastTs \in (IF store = <<>> THEN {now} ELSE LatestTimestamps) :
                /\ nextCheckTs' = Reanchor(lastTs)
                /\ arrived' = "none"
                /\ response' = [for |-> "config", status |-> 200]
                /\ emitted' = <<emitNextCheck(Reanchor(lastTs))>>
                /\ lastCycle' = NoCycle
                /\ lastCfg' = [done |-> TRUE, schedule |-> cfgReq[c].schedule]
          /\ cfgReq' = [cfgReq EXCEPT ![c] = IdleCfg]
       \/ /\ ConfigFailed(c)
          /\ UNCHANGED nextCheckTs
    /\ UNCHANGED <<now, scheduleIntervalMs, isCheckingRunning, cyc, store, prevCheck>>
    /\ UNCHANGED <<cronVars, fpVars, sessVars, readVars>>

\* no GET /api/items answered yet
NoBody == [sent |-> FALSE, listings |-> <<>>]

ReadIdle == itemsBody = NoBody

\* GET /api/items, lines 92-102: Listing.findAll ordered by timestamp, and
\* the response that carries the rows; 500 when the read rejects
GetItems ==
    /\ \/ /\ \E listings \in OrderedDesc(store) :
                itemsBody' = [sent |-> TRUE, listings |-> listings]
          /\ Note("items", [for |-> "items", status |-> 200], <<>>, NoCycle)
       \/ /\ UNCHANGED itemsBody
          /\ Note("items", [for |-> "items", status |-> 500], <<>>, NoCycle)
    /\ UNCHANGED <<now, scheduleIntervalMs, nextCheckTs, isCheckingRunning, cyc, cfgReq, store,
                   prevCheck>>
    /\ UNCHANGED <<cronVars, fpVars, sessVars>>

\* POST /api/reset of the API service, api.js lines 229-242: every row of
\* the Listing table is deleted, whatever the orchestrator is doing
ResetDatabase ==
    /\ \/ /\ store' = <<>>
          /\ Note("reset", [for |-> "reset", status |-> 200], <<>>, NoCycle)
       \/ /\ UNCHANGED store
          /\ Note("reset", [for |-> "reset", status |-> 500], <<>>, NoCycle)
    /\ UNCHANGED <<now, scheduleIntervalMs, nextCheckTs, isCheckingRunning, cyc, cfgReq,
                   prevCheck>>
    /\ UNCHANGED <<cronVars, fpVars, sessVars, readVars>>

-----------------------------------------------------------------------------
(* Specifications.                                                         *)

ExtractOrch(s) == Extract(s, OrchBatches)

ExtractAny(s) == Extract(s, Batches)

ExtractKeyed(s) == Extract(s, KeyBatches)

ExtractRead(s) == Extract(s, ReadBatches)

\* the steps of a check cycle after the extraction
CycleStep(s) ==
    \/ GetPreviousHash(s)
    \/ FetchPrevious(s)
    \/ Destroy(s)
    \/ FindExisting(s)
    \/ BulkCreate(s)
    \/ Notify(s)
    \/ CloseAndReturn(s)
    \/ EmitListingsUpdate(s)

Init == OrchInit /\ CronIdle /\ FpIdle /\ SessInit /\ ReadIdle

\* the orchestrator: clock, scheduler, both endpoints, the check cycle
Next ==
    \/ AdvanceTime
    \/ SchedulerTick
    \/ ManualCheck
    \/ \E s \in Slots : ExtractOrch(s)
    \/ \E s \in Slots : CycleStep(s)
    \/ \E c \in CfgSlots : ConfigPost(c)
    \/ \E c \in CfgSlots : ConfigUpserted(c)
    \/ \E c \in CfgSlots : ConfigAnchor(c)

Spec == Init /\ [][Next]_vars

\* change detection: checks triggered one after another through
\* POST /api/check, over every list the extraction may return
NextDetect ==
    \/ ManualCheck
    \/ \E s \in Slots : ExtractAny(s)
    \/ \E s \in Slots : CycleStep(s)

SpecDetect == Init /\ [][NextDetect]_vars

\* the dedup key of saveContent: checks over lists whose items have
\* different triples and one key
NextKeys ==
    \/ ManualCheck
    \/ \E s \in Slots : ExtractKeyed(s)
    \/ \E s \in Slots : CycleStep(s)

SpecKeys == Init /\ [][NextKeys]_vars

\* the Listing table and all its writers: guarded checks and the reset
\* endpoint of the API service
NextStore ==
    \/ ManualCheck
    \/ \E s \in Slots : ExtractOrch(s)
    \/ \E s \in Slots : CycleStep(s)
    \/ ResetDatabase

SpecStore == Init /\ [][NextStore]_vars

\* guarded checks and the readers of the Listing table
NextReaders ==
    \/ ManualCheck
    \/ \E s \in Slots : ExtractRead(s)
    \/ \E s \in Slots : CycleStep(s)
    \/ GetItems

SpecReaders == Init /\ [][NextReaders]_vars

\* the session phase of guarded checkWebsite calls
NextSession ==
    \/ SessionTimePasses
    \/ \E c \in Callers : SessionStart(c)
    \/ \E c \in Callers : InitializeBrowser(c)
    \/ \E c \in Callers : BrowserClosed(c)
    \/ \E c \in Callers : BrowserLaunched(c)
    \/ \E c \in Callers : LoginEnds(c)
    \/ \E c \in Callers : LoginReturns(c)
    \/ \E c \in Callers : Probe(c)
    \/ \E c \in Callers : SessionCycleEnds(c)

SpecSession == Init /\ [][NextSession]_vars

\* the session phase of the checkWebsite calls of the website-monitor
\* service, which overlap
NextMonitor ==
    \/ \E c \in Callers : MonitorCheck(c)
    \/ \E c \in Callers : InitializeBrowser(c)
    \/ \E c \in Callers : BrowserLaunched(c)
    \/ \E c \in Callers : LoginEnds(c)
    \/ \E c \in Callers : LoginReturns(c)
    \/ \E c \in Callers : WaitEnds(c)
    \/ \E c \in Callers : Probe(c)
    \/ \E c \in Callers : SessionCycleEnds(c)

SpecMonitor == Init /\ [][NextMonitor]_vars

\* rows stored under the second selector when it was the first of an
\* earlier configuration
OtherRows == ToRows(<<ItemC>>, Selectors[2], 0)

\* the server starts on a table that holds rows of the second target
InitTargets ==
    /\ now = BootMs
    /\ scheduleIntervalMs = DefaultIntervalMs
    /\ nextCheckTs = 0 + DefaultIntervalMs
    /\ isCheckingRunning = FALSE
    /\ cyc = [s \in Slots |-> IdleCycle]
    /\ cfgReq = [c \in CfgSlots |-> IdleCfg]
    /\ emitted = <<>>
    /\ arrived = "none"
    /\ response = NoResponse
    /\ lastCycle = NoCycle
    /\ store = OtherRows
    /\ prevCheck = NoCheck
    /\ lastCfg = NoCfg
    /\ CronIdle /\ FpIdle /\ SessInit /\ ReadIdle

\* checks with two targets configured
NextTargets ==
    \/ ManualCheck
    \/ \E s \in Slots : ExtractAny(s)
    \/ \E s \in Slots : CycleStep(s)

SpecTargets == InitTargets /\ [][NextTargets]_vars

\* the parser alone, over the schedule values of CronRecipes
InitCron == OrchInit /\ CronInit /\ FpIdle /\ SessInit /\ ReadIdle

NextCron == CronParse

SpecCron == InitCron /\ [][NextCron]_vars

\* the fingerprint alone, over the lists of FpLists and their orders
InitFingerprint == OrchInit /\ CronIdle /\ FpInit /\ SessInit /\ ReadIdle

NextFingerprint == Fingerprint

SpecFingerprint == InitFingerprint /\ [][NextFingerprint]_vars

\* Every awaited operation of a cycle ends: each page and network operation
\* carries a timeout and each database call returns or rejects.
SpecFair == Spec /\ WF_vars(\E s \in Slots : ExtractOrch(s) \/ CycleStep(s))

\* The same, and the setInterval callback of line 311 keeps being called.
SpecLoop ==
    /\ Spec
    /\ WF_vars(\E s \in Slots : ExtractOrch(s) \/ CycleStep(s))
    /\ WF_vars(SchedulerTick)

-----------------------------------------------------------------------------
(* Properties.                                                             *)

\* where a cycle is suspended inside its checkWebsite call
CheckPcs == {"extract", "previousHash", "previousListings", "destroy", "existing",
             "bulkCreate", "notify", "close"}

\* a step in which a cycle starts
CycleStarts == \E s \in Slots : cyc[s].kind = "none" /\ cyc'[s].kind # "none"

CronLit(chars) == [k |-> "lit", n |-> 0, s |-> chars]

\* C1: at most one check cycle is in flight; the guard is set for as long as
\* a cycle's checkWebsite call is pending, and no cycle starts while it is set.
C1_MutualExclusion ==
    /\ [](/\ Cardinality(Running) <= 1
          /\ (\E s \in Slots : cyc[s].pc \in CheckPcs) => isCheckingRunning)
    /\ [][CycleStarts => ~isCheckingRunning]_vars

\* a scheduler tick arrives, with the deadline reached, while the checkWebsite
\* call of a manual cycle is pending, and that cycle is still the only one
C1_Witness ==
    /\ arrived = "tick"
    /\ now >= nextCheckTs
    /\ Cardinality(Running) = 1
    /\ \E s \in Slots : cyc[s].kind = "manual" /\ cyc[s].pc = "bulkCreate"

\* C2: a POST /api/check that finds the guard set is answered 429, emits no
\* event, starts nothing and leaves deadline, interval, guard, cycles and
\* listings as they were.
C2_RejectedCheck ==
    [][(arrived' = "check" /\ isCheckingRunning) =>
          /\ response' = [for |-> "check", status |-> 429]
          /\ emitted' = <<>>
          /\ UNCHANGED <<nextCheckTs, scheduleIntervalMs, isCheckingRunning, cyc, store>>]_vars

\* a request was just rejected while a checkWebsite call is pending
C2_Witness ==
    /\ arrived = "check"
    /\ response = [for |-> "check", status |-> 429]
    /\ isCheckingRunning
    /\ \E s \in Slots : cyc[s].pc \in CheckPcs

\* C3: whenever the guard is set it is cleared again later, whatever the
\* cycle's checkWebsite call and event publication do.
C3_GuardReleased == isCheckingRunning ~> ~isCheckingRunning

\* a cycle whose checkWebsite call threw has ended and the guard is clear
C3_Witness ==
    /\ lastCycle.kind # "none"
    /\ lastCycle.threw
    /\ ~isCheckingRunning

\* C4 as stated: a cycle that starts with a positive interval sets the
\* deadline to the start time plus the interval, strictly in the future and
\* different from the deadline before the trigger.
C4_Original ==
    [][(CycleStarts /\ scheduleIntervalMs > 0) =>
          /\ nextCheckTs' = now + scheduleIntervalMs
          /\ nextCheckTs' > now'
          /\ nextCheckTs' # nextCheckTs]_vars

\* C4 as amended: a cycle that starts with a positive interval sets the
\* deadline to the start time plus the interval, strictly in the future; the
\* deadline differs from the one before the trigger for every automatic start,
\* and for a manual start unless the deadline already had that value.
C4_DeadlineOnStart ==
    [][(CycleStarts /\ scheduleIntervalMs > 0) =>
          /\ nextCheckTs' = now + scheduleIntervalMs
          /\ nextCheckTs' > now'
          /\ (arrived' = "tick" => nextCheckTs' # nextCheckTs)
          /\ (nextCheckTs # now + scheduleIntervalMs => nextCheckTs' # nextCheckTs)]_vars

\* an automatic cycle has just started with a positive interval
C4_Witness ==
    /\ arrived = "tick"
    /\ emitted = <<emitChecking>>
    /\ scheduleIntervalMs > 0
    /\ nextCheckTs = now + scheduleIntervalMs
    /\ \E s \in Slots : cyc[s].kind = "tick" /\ cyc[s].pc = "extract"

\* C5: a cycle that ends has published, in the step that clears the guard, a
\* 'listingsUpdate' event with all stored listings and the current deadline,
\* whether it was automatic or manual and whether its check failed.
C5_Original ==
    lastCycle.kind # "none" =>
        /\ lastCycle.updated
        /\ Len(emitted) >= 1
        /\ emitted[1].type = "listingsUpdate"
        /\ emitted[1].nextCheck = nextCheckTs
        /\ emitted[1].listings \in OrderedDesc(store)

MaxTimestamp(rows) ==
    CHOOSE t \in {rows[k].timestamp : k \in 1..Len(rows)} :
        \A k \in 1..Len(rows) : rows[k].timestamp <= t

\* C6: when a POST /api/config that carries a schedule is answered, the
\* interval is parseCronToMs of the schedule, the deadline is the latest
\* listing's timestamp (or the current time) plus the interval, or now plus the
\* interval when that is not in the future; it is not in the past, and it was
\* broadcast as 'nextCheck'.
C6_Original ==
    lastCfg.done =>
        LET interval == parseCronToMs(CronValue(lastCfg.schedule))
            lastTs   == IF store = <<>> THEN now ELSE MaxTimestamp(store)
            deadline == IF lastTs + interval > now THEN lastTs + interval ELSE now + interval
        IN  /\ scheduleIntervalMs = interval
            /\ nextCheckTs = deadline
            /\ nextCheckTs >= now
            /\ emitted = <<emitNextCheck(nextCheckTs)>>

\* C7: on a string of five fields the parser returns N minutes for the minute
\* field '*/N', H hours for minute '0' with hour '*/H', and one hour for
\* minute '0' with hour '*'.
C7_RecognisedShapes ==
    (cronPc = "done" /\ cronIn.type = "string" /\ cronIn.nfields = 5) =>
        /\ cronIn.minute.k = "every" => cronOut = cronIn.minute.n * 60000
        /\ (cronIn.minute = CronLit(<<"0">>) /\ cronIn.hour.k = "every") =>
               cronOut = cronIn.hour.n * 3600000
        /\ (cronIn.minute = CronLit(<<"0">>) /\ cronIn.hour = CronStar) => cronOut = 3600000

\* '*/10 * * * *' was parsed to 600000
C7_Witness ==
    /\ cronPc = "done"
    /\ cronIn = DefaultRecipe
    /\ cronOut = 600000

\* the three shapes of C7
Recognised(r) ==
    /\ r.type = "string"
    /\ r.nfields = 5
    /\ \/ r.minute.k = "every"
       \/ r.minute = CronLit(<<"0">>) /\ (r.hour.k = "every" \/ r.hour = CronStar)

\* C8 as stated: every value outside the three shapes parses to 300000.
C8_Original == (cronPc = "done" /\ ~Recognised(cronIn)) => cronOut = 300000

\* C8 as amended: 300000 is returned for a value that is not a string, is
\* empty, has not five fields, or whose minute field is neither '0' nor '*/'
\* followed by a number; with minute '0', an hour field that is not '*/'
\* followed by a number gives 3600000; a field '*/' followed by a number and
\* other characters counts as that number.
C8_Fallbacks ==
    cronPc = "done" =>
        /\ (cronIn.type # "string" \/ cronIn.nfields # 5) => cronOut = 300000
        /\ (/\ cronIn.type = "string"
            /\ cronIn.nfields = 5
            /\ cronIn.minute.k = "lit"
            /\ cronIn.minute.s \in {<<"*">>, <<"5">>, <<"0", "0">>, <<"0", "x">>,
                                    <<"*", "/">>, <<"*", "/", "x">>}) => cronOut = 300000
        /\ (/\ cronIn.type = "string"
            /\ cronIn.nfields = 5
            /\ cronIn.minute = CronLit(<<"0">>)
            /\ cronIn.hour.k = "lit"
            /\ cronIn.hour.s \in {<<"8">>, <<"*", "/">>, <<"*", "/", "x">>}) => cronOut = 3600000
        /\ (/\ cronIn.type = "string"
            /\ cronIn.nfields = 5
            /\ cronIn.minute = CronLit(<<"*", "/", "1", "x">>)) => cronOut = 60000
        /\ (/\ cronIn.type = "string"
            /\ cronIn.nfields = 5
            /\ cronIn.minute = CronLit(<<"0">>)
            /\ cronIn.hour = CronLit(<<"*", "/", "2", "x">>)) => cronOut = 7200000

\* '0 8 * * *' was parsed to one hour
C8_Witness ==
    /\ cronPc = "done"
    /\ cronIn.type = "string"
    /\ cronIn.nfields = 5
    /\ cronIn.minute = CronLit(<<"0">>)
    /\ cronIn.hour = CronLit(<<"8">>)
    /\ cronOut = 3600000

\* C9: a check that found no row stored for the target when it began, and
\* that got through saveContent, reports every extracted item as new, and
\* the notifier has been called by the time the check returns if there is one.
C9_FirstRunAllNew ==
    \A s \in Slots :
        (cyc[s].atStart = <<>> /\ cyc[s].pc \in {"notify", "close"}) =>
            /\ cyc[s].newItems = cyc[s].items
            /\ (cyc[s].pc = "close" /\ Len(cyc[s].items) > 0) => cyc[s].notified

\* a first check is about to return with two extracted items announced
C9_Witness ==
    \E s \in Slots :
        /\ cyc[s].atStart = <<>>
        /\ cyc[s].pc = "close"
        /\ cyc[s].items = <<ItemA, ItemA>>
        /\ cyc[s].newItems = <<ItemA, ItemA>>
        /\ cyc[s].notified

\* C10: a successful check that extracts the list the successful check before
\* it extracted finds equal fingerprints, does not call saveContent, reports
\* no new item and sends no mail.
C10_Original ==
    \A s \in Slots :
        (/\ cyc[s].pc = "close"
         /\ prevCheck.ok
         /\ prevCheck.items = cyc[s].items
         /\ Len(cyc[s].items) > 0) =>
            /\ cyc[s].previousHash = CurrentHash(cyc[s].items)
            /\ ~cyc[s].saved
            /\ cyc[s].newItems = <<>>
            /\ ~cyc[s].mailed

\* C11: the fingerprint of a list of items, and of the rows stored for it,
\* is the same in every order of the list.
C11_Original ==
    fp.pc = "done" =>
        /\ fp.current = fp.reordered
        /\ fp.stored = fp.storedReordered

C13_UniqueTriples ==
    \A i, j \in 1..Len(store) :
        (i # j /\ store[i].selector = store[j].selector) => ~SameTriple(store[i], store[j])

\* a check has saved a list that holds one triple twice
C13_Witness ==
    /\ Len(store) = 1
    /\ \E s \in Slots :
          /\ cyc[s].pc \in {"notify", "close"}
          /\ cyc[s].saved
          /\ cyc[s].items = <<ItemA, ItemA2>>

\* the item a row was made from
RowItem(r) ==
    [title |-> r.title, price |-> r.price, url |-> r.url, description |-> r.description]

RECURSIVE MapRowItem(_)
MapRowItem(q) == IF q = <<>> THEN <<>> ELSE <<RowItem(Head(q))>> \o MapRowItem(Tail(q))

\* the first occurrence of each (title, price, url) of a list
RECURSIVE FirstOfEachTriple(_, _)
FirstOfEachTriple(items, acc) ==
    IF items = <<>> THEN acc
    ELSE FirstOfEachTriple(Tail(items),
                           IF InSeq(Head(items), acc) THEN acc ELSE Append(acc, Head(items)))

\* C14: once saveContent has returned, the rows stored for the target are
\* one row for the first occurrence of each (title, price, url) of the batch,
\* and nothing else.
C14_Original ==
    \A s \in Slots :
        (cyc[s].pc \in {"notify", "close"} /\ cyc[s].saved) =>
            MapRowItem(RowsOf(selectors0)) = FirstOfEachTriple(cyc[s].items, <<>>)

\* where a cycle is inside or past saveContent
SavePcs == {"destroy", "existing", "bulkCreate", "notify"}

\* C15: from the call of saveContent on, the previous fingerprint and the
\* previous rows of a cycle are those of the rows stored before its delete
\* (the fingerprint is null when its read was rejected), and they are read
\* at no other place than before the call of saveContent.
C15_ReadsBeforeDelete ==
    /\ [](\A s \in Slots :
            (cyc[s].pc \in SavePcs \/ (cyc[s].pc = "close" /\ cyc[s].saved)) =>
                /\ cyc[s].previousListings \in OrderedDesc(cyc[s].atStart)
                /\ \/ cyc[s].previousHash = NullHash
                   \/ \E o \in OrderedDesc(cyc[s].atStart) :
                         cyc[s].previousHash = PreviousHashOf(o))
    /\ [][\A s \in Slots :
            (/\ cyc'[s].kind # "none"
             /\ \/ cyc'[s].previousListings # cyc[s].previousListings
                \/ cyc'[s].previousHash # cyc[s].previousHash) =>
                /\ cyc[s].pc \in {"previousHash", "previousListings"}
                /\ RowsOf(selectors0) = cyc[s].atStart]_vars

\* the delete of a cycle has run and the cycle holds the two rows it read
\* before
C15_Witness ==
    \E s \in Slots :
        /\ cyc[s].pc = "existing"
        /\ RowsOf(selectors0) = <<>>
        /\ Len(cyc[s].previousListings) = 2
        /\ ~cyc[s].previousHash.null

\* a step in which the checkWebsite call of slot s rejects
CheckFails(s) ==
    /\ cyc[s].pc \in CheckPcs
    /\ ~cyc[s].threw
    /\ \/ cyc'[s].threw
       \/ cyc'[s].kind = "none" /\ lastCycle'.threw

\* C16: when a check fails, the rows stored for the target are those that
\* were stored when the check began.
C16_Original ==
    [][\A s \in Slots :
          CheckFails(s) => SelectSeq(store', LAMBDA r : r.selector = selectors0) = cyc[s].atStart]_vars

\* C17: the Listing table changes only in a step of a check cycle, by the
\* delete or the insert of its saveContent.
C17_Original ==
    [][store' # store =>
          \E s \in Slots : cyc[s].pc \in {"destroy", "bulkCreate"} /\ cyc'[s] # cyc[s]]_vars

\* C18: a cycle calls sendMail at most once; when its checkWebsite call is
\* about to return or has ended, it has called it exactly if it found new
\* items and config.email.enabled was true, and before that not at all.
C18_SendAttempts ==
    \A s \in Slots :
        /\ cyc[s].sendAttempts <= 1
        /\ cyc[s].mailed <=> cyc[s].sendAttempts = 1
        /\ cyc[s].pc \in {"close", "emit"} =>
              (cyc[s].sendAttempts = 1 <=> (Len(cyc[s].newItems) > 0 /\ cyc[s].emailEnabled))
        /\ cyc[s].pc \notin {"close", "emit"} => cyc[s].sendAttempts = 0

\* a cycle with two new items and notifications enabled has made its one
\* attempt, which succeeded
C18_Witness ==
    \E s \in Slots :
        /\ cyc[s].pc = "close"
        /\ Len(cyc[s].newItems) = 2
        /\ cyc[s].emailEnabled
        /\ cyc[s].sendAttempts = 1
        /\ ~cyc[s].sendFailed

LoginFails(c) ==
    sess[c].pc = "login" /\ sess'[c].pc # "login" /\ sess'[c].lastLogin = "failed"

\* where a call is before its initializeBrowser has tested the login state
BeforeLoginTest == {"loadConfig", "closeBrowser", "launch"}

\* C20: the step in which login() fails at one of its steps leaves the
\* session logged-out; when login() then rejects, no login is in progress
\* and the check fails without extraction; the state stays so until the
\* next check, and the next check, once its browser is there, calls login().
C20_LoginFailure ==
    /\ [][\A c \in Callers :
            LoginFails(c) =>
                /\ ~isLoggedIn'
                /\ lastLoginTime' = NoLogin
                /\ sess'[c].pc = "closePage"]_vars
    /\ [][\A c \in Callers :
            (sess[c].pc = "closePage" /\ sess[c].lastLogin = "failed" /\ sess'[c] # sess[c]) =>
                /\ ~isLoggedIn'
                /\ lastLoginTime' = NoLogin
                /\ ~loginInProgress'
                /\ sess'[c].pc = "failed"
                /\ ~isCheckingRunning']_vars
    /\ [](\A c \in Callers :
            (sess[c].lastLogin = "failed" /\ sess[c].pc \in {"closePage", "failed"} \cup BeforeLoginTest) =>
                /\ ~isLoggedIn
                /\ lastLoginTime = NoLogin
                /\ (sess[c].pc # "closePage" => ~loginInProgress))
    /\ [][\A c \in Callers :
            (/\ sess[c].lastLogin = "failed"
             /\ sess[c].pc \in BeforeLoginTest
             /\ sess'[c].pc \notin BeforeLoginTest \cup {"failed"}) =>
                /\ sess'[c].pc = "login"
                /\ sess'[c].logins = 1]_vars

\* after a login that failed on an expired session, the next check is
\* inside login()
C20_Witness ==
    \E c \in Callers :
        /\ sess[c].pc = "login"
        /\ sess[c].site = "init"
        /\ sess[c].lastLogin = "failed"
        /\ now > LOGIN_TIMEOUT
        /\ ~isLoggedIn

\* the call is inside the login() that initializeBrowser called (line 194)
InitLogin(c) == sess[c].pc \in {"login", "closePage"} /\ sess[c].site = "init"

\* C21: of the initializeBrowser calls that overlap, at most one is inside
\* login() at a time, and loginInProgress is set exactly while one is; a
\* call enters login() only when it finds loginInProgress false, and a call
\* that polls returns only when loginInProgress is false, without a login
\* of its own.
C21_SingleLogin ==
    /\ [](Cardinality({c \in Callers : InitLogin(c)}) <= 1)
    /\ [](loginInProgress <=> \E c \in Callers : InitLogin(c))
    /\ [][\A c \in Callers :
            (sess[c].pc \in BeforeLoginTest /\ sess'[c].pc = "login") => ~loginInProgress]_vars
    /\ [][\A c \in Callers :
            (sess[c].pc \in BeforeLoginTest /\ loginInProgress /\ LoginRequired(now)
             /\ sess[c].pc # "closeBrowser" /\ sess'[c].pc \notin BeforeLoginTest \cup {"failed"}) =>
                sess'[c].pc = "wait"]_vars
    /\ [][\A c \in Callers :
            (sess[c].pc = "wait" /\ sess'[c].pc # "wait") =>
                /\ ~loginInProgress
                /\ ~loginInProgress'
                /\ sess'[c].pc = "probe"
                /\ sess'[c].logins = 0]_vars

\* one call is inside login() and another polls for its end
C21_Witness ==
    \E c, d \in Callers : InitLogin(c) /\ sess[d].pc = "wait"

\* a step in which initializeBrowser returns to checkWebsite
InitReturns(c) == sess[c].pc # "probe" /\ sess'[c].pc = "probe"

\* C22: whenever initializeBrowser returns to a check, isLoggedIn is true
\* and lastLoginTime is set.
C22_Original ==
    [][\A c \in Callers :
        InitReturns(c) => (isLoggedIn' /\ ~lastLoginTime'.null)]_vars

\* a step in which the probe of line 506 reports 'not logged in'
ProbedOut(c) == sess[c].pc = "probe" /\ sess'[c].probe = "loggedOut"

\* the last login() that passed its verification did so less than the grace
\* window ago
RecentLogin == ~loginDone.null /\ now - loginDone.at < RECENT_LOGIN_GRACE_MS

\* C23: when the probe reports 'not logged in' less than 10 minutes after
\* the last successful login, the check goes on with the session state
\* unchanged; otherwise the state is set to logged-out and login() is called,
\* once per check, and a failure of that login fails the check logged-out.
C23_Original ==
    /\ [][\A c \in Callers :
            ProbedOut(c) =>
                IF RecentLogin
                THEN /\ sess'[c].pc = "ready"
                     /\ UNCHANGED <<isLoggedIn, lastLoginTime>>
                ELSE /\ sess'[c].pc = "login"
                     /\ sess'[c].site = "relogin"
                     /\ ~isLoggedIn'
                     /\ lastLoginTime' = NoLogin]_vars
    /\ [](\A c \in Callers : sess[c].site = "relogin" => sess[c].logins <= 2)
    /\ [][\A c \in Callers :
            (/\ sess[c].pc = "closePage"
             /\ sess[c].site = "relogin"
             /\ sess[c].lastLogin = "failed"
             /\ sess'[c] # sess[c]) =>
                /\ sess'[c].pc = "failed"
                /\ ~isLoggedIn'
                /\ lastLoginTime' = NoLogin]_vars

\* the rows of target sel in the table st
RowsIn(st, sel) == SelectSeq(st, LAMBDA r : r.selector = sel)

\* C24: a check that returns has checked every configured target, and what
\* it writes for one target leaves the rows of every other target as they
\* were.
C24_Original ==
    /\ [][\A s \in Slots :
            (cyc[s].pc = "close" /\ cyc'[s].pc = "emit") =>
                \A i \in 1..Len(Selectors) : Selectors[i] \in TargetsOf(Selectors)]_vars
    /\ [][\A i \in 1..Len(Selectors) :
            RowsIn(store', Selectors[i]) # RowsIn(store, Selectors[i]) =>
                \A j \in 1..Len(Selectors) :
                    j # i => RowsIn(store', Selectors[j]) = RowsIn(store, Selectors[j])]_vars

\* the checkWebsite calls in progress
InProgress == {c \in Callers : sess[c].pc \notin {"idle", "failed"}}

\* C25: at most one checkWebsite call is in progress at any time.
C25_Original == Cardinality(InProgress) <= 1

\* the (title, price, url) triples of a list of items or rows
TripleSet(q) == {Triple(q[k]) : k \in 1..Len(q)}

\* C26: a GET /api/items answered while a check is running whose previous
\* snapshot and extracted batch are both non-empty shows, for the target,
\* the complete previous set or the complete new set, and never no listing.
C26_Original ==
    [][(arrived' = "items" /\ response'.status = 200) =>
        \A s \in Slots :
            (cyc[s].pc \in CheckPcs /\ cyc[s].atStart # <<>> /\ cyc[s].items # <<>>) =>
                LET seen == RowsIn(itemsBody'.listings, selectors0)
                IN  /\ seen # <<>>
                    /\ \/ TripleSet(seen) = TripleSet(cyc[s].atStart)
                       \/ TripleSet(seen) = TripleSet(cyc[s].items)]_vars

\* the scheduler callback runs in this step
Ticks == arrived' = "tick"

\* C27: a tick that finds no check running and the deadline reached starts
\* one check cycle; a tick that finds a check running or the deadline ahead
\* changes nothing and emits nothing; and after a check that threw, a reached
\* deadline with no check running leads to a running check (unless a
\* configuration change moves the deadline ahead first).
C27_SchedulerLoop ==
    /\ [][(Ticks /\ ~isCheckingRunning /\ now >= nextCheckTs) =>
            /\ isCheckingRunning'
            /\ \A s \in Slots : cyc[s].kind = "none"
            /\ Cardinality({s \in Slots : cyc'[s].kind = "tick"}) = 1
            /\ Cardinality({s \in Slots : cyc'[s].kind # "none"}) = 1
            /\ emitted' = <<emitChecking>>]_vars
    /\ [][(Ticks /\ (isCheckingRunning \/ now < nextCheckTs)) =>
            /\ UNCHANGED <<now, scheduleIntervalMs, nextCheckTs, isCheckingRunning, cyc, cfgReq,
                           store>>
            /\ emitted' = <<>>]_vars
    /\ ((~prevCheck.ok /\ ~isCheckingRunning /\ now >= nextCheckTs)
            ~> (isCheckingRunning \/ now < nextCheckTs))

\* rows were stored by a check that returned, a later check threw, and the
\* scheduler has just started a cycle
C27_Witness ==
    /\ arrived = "tick"
    /\ emitted = <<emitChecking>>
    /\ isCheckingRunning
    /\ store # <<>>
    /\ ~prevCheck.ok

\* C28: whenever initializeBrowser returns to a check, and in particular
\* when it reuses the session without a login, the last login() that passed
\* did so in the browser instance now held.
C28_Original ==
    [][\A c \in Callers :
        InitReturns(c) =>
            /\ browser' # NoBrowser
            /\ loginBrowser' = browser']_vars

\* how often the triple of x occurs in q
Occurrences(x, q) == Cardinality({k \in 1..Len(q) : SameTriple(q[k], x)})

\* C29: when a check has saved, every stored triple of the target that was
\* not in the previous snapshot occurs exactly once in newItems, and every
\* item of newItems is stored.
C29_Original ==
    \A s \in Slots :
        (cyc[s].pc \in {"notify", "close"} /\ cyc[s].saved) =>
            LET stored == RowsOf(selectors0)
            IN  /\ \A k \in 1..Len(stored) :
                      ~InSeq(stored[k], cyc[s].previousListings) =>
                          Occurrences(stored[k], cyc[s].newItems) = 1
                /\ \A k \in 1..Len(cyc[s].newItems) : InSeq(cyc[s].newItems[k], stored)

\* C30: an item that the successful check before this one extracted as well
\* is not among the items this check reports as new.
C30_Original ==
    \A s \in Slots :
        (cyc[s].pc \in {"notify", "close"} /\ prevCheck.ok) =>
            \A k \in 1..Len(cyc[s].newItems) : ~InSeq(cyc[s].newItems[k], prevCheck.items)

====
